---- MODULE Spec2Model ----
(***************************************************************************)
(* Bootcamp Rally: the race page of streamlit_app.py (one settlement run), *)
(* the data-access layer of rally_data_access.py and the commit/rollback   *)
(* discipline of snowflake_db.py, together with the pure race time model   *)
(* simulate_time_minutes.                                                  *)
(*                                                                         *)
(* Units.  Python floats are modelled by exact rationals over fixed        *)
(* denominators (the final round(.,3) is applied to the exact quotient):   *)
(*   speed       km/h, integer                                             *)
(*   durability  halves        (2 is 1.0)                                  *)
(*   acceleration halves       (2 is 1.0)                                  *)
(*   track factor fiftieths    (50 is 1.00, 45 is 0.90)                    *)
(*   variability twentieths    (19 is 0.95, 21 is 1.05)                    *)
(*   random draw fortieths     (40 is 1.0)                                 *)
(*   distance    metres        (100000 is 100.0 km)                        *)
(*   race time   thousandths of a minute (what round(., 3) keeps)          *)
(***************************************************************************)
EXTENDS Integers, Sequences, FiniteSets, TLC

\* ------------------------------------------------------------------------
\* Race time model: simulate_time_minutes
\* ------------------------------------------------------------------------

Max2(a, b) == IF a >= b THEN a ELSE b

Min2(a, b) == IF a <= b THEN a ELSE b

\* max(0.0, min(1.0, x)) with x in halves
Clamp01(x) == Max2(0, Min2(2, x))

\* a sign slip: 0.5 - 0.5 * clamp(x)
PerfInverted(x) == 2 - Clamp01(x)

\* 0.5 + 0.5 * clamp(x), in quarters
Perf(x) == 2 + Clamp01(x)

\* random.uniform(lo, hi) = lo + (hi - lo) * u for the draw u in [0, 1];
\* u2 is u in halves, lo and hi in twentieths, the result in fortieths.
Uniform(lo, hi, u2) == 2 * lo + (hi - lo) * u2

\* the floor on the effective speed, km/h
MinEffSpeed == 50

\* denominator of speed * perf_d * perf_a * rand * track_factor:
\* quarters * quarters * fortieths * fiftieths
EffDen == 4 * 4 * 40 * 50

\* speed_kmh * perf_d * perf_a * rand * track_factor, over EffDen
EffSpeedNum(speed, dur, acc, tf, rand) ==
    speed * Perf(dur) * Perf(acc) * rand * tf

\* max(50.0, eff_speed), over EffDen
FlooredEffSpeedNum(speed, dur, acc, tf, rand) ==
    Max2(MinEffSpeed * EffDen, EffSpeedNum(speed, dur, acc, tf, rand))

\* One step of an exact multiplication of the fraction qr[1] + qr[2] / d
\* by k, keeping quotient and remainder (all intermediate products stay
\* small).
MulStep(qr, k, d) ==
    << qr[1] * k + ((qr[2] * k) \div d), (qr[2] * k) % d >>

\* floor and remainder of (a * 4 * 4 * 40 * 50) / d, for d > 0
ScaledDiv(a, d) ==
    LET q0 == << a \div d, a % d >>
        q1 == MulStep(q0, 40, d)
        q2 == MulStep(q1, 40, d)
        q3 == MulStep(q2, 20, d)
    IN  q3

\* round(x, 3) of x = qr[1] + qr[2] / d thousandths: to nearest, ties to even.
\* (On an exact tie the float quotient need not be the tie; the input sets
\* below produce no exact tie.)
RoundHalfEven(qr, d) ==
    IF 2 * qr[2] > d THEN qr[1] + 1
    ELSE IF 2 * qr[2] < d THEN qr[1]
    ELSE IF qr[1] % 2 = 0 THEN qr[1] ELSE qr[1] + 1

\* distance_km / eff_speed * 60.0 in thousandths of a minute, before rounding:
\* 60 * dist_m * EffDen / FlooredEffSpeedNum, as <<floor, remainder>>
ExactTime(speed, dur, acc, tf, rand, dist) ==
    ScaledDiv(60 * dist, FlooredEffSpeedNum(speed, dur, acc, tf, rand))

\* simulate_time_minutes with the random draw u2 made explicit.  The code
\* has no failure path: it returns a time for every input.
simulate_time_minutes(speed, dur, acc, tf, lo, hi, u2, dist) ==
    LET rand == Uniform(lo, hi, u2)
    IN  RoundHalfEven(ExactTime(speed, dur, acc, tf, rand, dist),
                      FlooredEffSpeedNum(speed, dur, acc, tf, rand))

\* default arguments of simulate_time_minutes
DefaultLo == 19

DefaultHi == 21

DefaultDistance == 100000


\* ------------------------------------------------------------------------
\* Bounds and input sets
\* ------------------------------------------------------------------------

\* most rows the CARS table holds
MaxCars == 2

\* most clicks on "Start race!"
MaxAttempts == 2

\* the TEAMS table: the teams' identifiers (the model registers no team)
TeamIds == {1, 2}

\* budget every team starts with
InitialBudget == 100

\* SQL NULL in TEAM_ID / WINNER_TEAM_ID
NULL == 0

\* build_track_catalog: the "factor" of each track, in fiftieths
TrackFactor(track_name) ==
    CASE track_name = "Asphalt Sprint" -> 50
      [] track_name = "Desert Loop"    -> 46
      [] track_name = "Forest Run"     -> 48
      [] track_name = "Mountain Pass"  -> 45

\* the track the race page races on (one, to keep the state space small;
\* the track only scales the times)
Tracks == {"Asphalt Sprint"}

\* the tracks the callers of create_race choose from
CallerTracks == {"Asphalt Sprint", "Mountain Pass"}

\* st.number_input values of the race settings
Fees == {10}

Prizes == {50}

\* (speed, durability, acceleration) of the cars the model registers
CarStats == { <<220, 2, 2>>, <<200, 1, 2>> }

\* the random draws u of random.uniform, in halves
Draws == {0, 2}

\* ------------------------------------------------------------------------
\* State
\* ------------------------------------------------------------------------

VARIABLES
    db,              \* the committed tables
    sess,            \* the tables as the one cached connection sees them
                     \* (committed rows and its own uncommitted writes)
    IN_TRANSACTION,  \* snowflake_db.IN_TRANSACTION
    prev,            \* Transaction._prev of the race page's block
    pc,              \* position of the race page's script run
    run,             \* local variables of the race page's script run
    before,          \* the committed tables when the run read its roster
    outcome,         \* how the last run ended
    attempts,        \* clicks on "Start race!" so far
    tcall,           \* one call of simulate_time_minutes (SpecTime)
    callers,         \* the callers of create_race (SpecCreate)
    tx               \* the threads that use Transaction blocks (SpecTx,
                     \* SpecThreads)

vars == << db, sess, IN_TRANSACTION, prev, pc, run, before, outcome,
           attempts, tcall, callers, tx >>

\* the variables of the race page's script run
pagevars == << prev, pc, run, before, outcome, attempts >>

sysvars == << db, sess, IN_TRANSACTION, prev, pc, run, before, outcome,
              attempts >>

\* a CARS row; CAR_ID is the row's index in the table
CarRow(team_id, stats) ==
    [ TEAM_ID |-> team_id, SPEED |-> stats[1],
      DURABILITY |-> stats[2], ACCELERATION |-> stats[3] ]

\* the tables before the first click: the teams, no race, no result, and
\* either no car or one car that is assigned to no team
InitTables(cars) ==
    [ teams   |-> [t \in TeamIds |-> InitialBudget],
      cars    |-> cars,
      races   |-> << >>,
      results |-> << >>,
      debited |-> {} ]     \* races whose fee UPDATE has been applied

NoRun ==
    [ df_c |-> << >>, track_name |-> "", fee |-> 0, prize |-> 0,
      race_id |-> 0, results_payload |-> << >>, winner_team_id |-> NULL,
      raised |-> "", wrote |-> 0 ]

NoCall == [ state |-> "none" ]

\* no caller of create_race, no thread with a Transaction block
NoCallers == << >>

NoTx == << >>

Init ==
    /\ \E cars \in { << >>, << CarRow(NULL, <<220, 2, 2>>) >> } :
          /\ db = InitTables(cars)
          /\ sess = InitTables(cars)
    /\ IN_TRANSACTION = FALSE
    /\ prev = FALSE
    /\ pc = "idle"
    /\ run = NoRun
    /\ before = db
    /\ outcome = "none"
    /\ attempts = 0
    /\ tcall = NoCall
    /\ callers = NoCallers
    /\ tx = NoTx

\* ------------------------------------------------------------------------
\* snowflake_db: execute, execute_many, Transaction
\* ------------------------------------------------------------------------

\* execute that commits whatever the flag says
AutoCommitsAlways(in_transaction) == TRUE

\* execute / execute_many: "if not IN_TRANSACTION: conn.commit()"
AutoCommits(in_transaction) == ~ in_transaction

\* conn.commit(): what the connection wrote becomes the committed tables
Commit(committed, view) == view

\* a rollback that discards nothing
RollbackKeepsWrites(committed, view) == view

\* conn.rollback(): the connection's uncommitted writes are discarded
Rollback(committed, view) == committed

\* execute(conn, sql, params): the statement turns the connection's view
\* into newSess, then commits unless a Transaction block is open.
\* conn.commit() makes everything the connection wrote durable.
Execute(newSess) ==
    /\ sess' = newSess
    /\ db' = IF AutoCommits(IN_TRANSACTION) THEN Commit(db, newSess) ELSE db

\* ------------------------------------------------------------------------
\* rally_data_access
\* ------------------------------------------------------------------------

\* get_all_cars: every CARS row ordered by CAR_ID
get_all_cars(tables) ==
    [ i \in 1..Len(tables.cars) |->
        [ CAR_ID |-> i, TEAM_ID |-> tables.cars[i].TEAM_ID,
          SPEED |-> tables.cars[i].SPEED,
          DURABILITY |-> tables.cars[i].DURABILITY,
          ACCELERATION |-> tables.cars[i].ACCELERATION ] ]

\* add_car: INSERT INTO CARS
add_car(tables, team_id, stats) ==
    [ tables EXCEPT !.cars = Append(@, CarRow(team_id, stats)) ]

\* create_race: INSERT INTO RACES (TRACK_NAME); WINNER_TEAM_ID stays NULL
create_race_insert(tables, track_name) ==
    [ tables EXCEPT !.races =
        Append(@, [ TRACK_NAME |-> track_name, WINNER_TEAM_ID |-> NULL ]) ]

\* create_race: SELECT MAX(RACE_ID) FROM RACES
max_race_id(tables) == Len(tables.races)

\* an UPDATE RACES SET WINNER_TEAM_ID that lost its WHERE clause
set_race_winner_everywhere(tables, race_id, winner_team_id) ==
    [ tables EXCEPT !.races =
        [ i \in 1..Len(@) |->
            [ @[i] EXCEPT !.WINNER_TEAM_ID = winner_team_id ] ] ]

\* set_race_winner: UPDATE RACES SET WINNER_TEAM_ID WHERE RACE_ID = race_id
set_race_winner(tables, race_id, winner_team_id) ==
    [ tables EXCEPT !.races =
        [ i \in 1..Len(@) |->
            IF i = race_id
            THEN [ @[i] EXCEPT !.WINNER_TEAM_ID = winner_team_id ]
            ELSE @[i] ] ]

\* insert_race_results: one RACE_RESULTS row per (car_id, time, position)
insert_race_results(tables, race_id, results) ==
    [ tables EXCEPT !.results =
        @ \o [ i \in 1..Len(results) |->
                 [ RACE_ID |-> race_id, CAR_ID |-> results[i][1],
                   TIME_TAKEN |-> results[i][2],
                   POSITION |-> results[i][3] ] ] ]

\* SELECT DISTINCT TEAM_ID FROM CARS WHERE TEAM_ID IS NOT NULL
TeamsWithCars(tables) ==
    { tables.cars[i].TEAM_ID : i \in 1..Len(tables.cars) } \ {NULL}

\* pay_participation_fee_for_all_teams_with_cars: BUDGET - fee for every
\* team that has a CARS row when the UPDATE runs
pay_participation_fee(tables, fee) ==
    [ tables EXCEPT
        !.teams = [ t \in DOMAIN @ |->
                      IF t \in TeamsWithCars(tables) THEN @[t] - fee
                      ELSE @[t] ] ]

\* credit_winner_prize: BUDGET + prize WHERE TEAM_ID = winner_team_id
credit_winner_prize(tables, winner_team_id, prize) ==
    [ tables EXCEPT
        !.teams = [ t \in DOMAIN @ |->
                      IF t = winner_team_id THEN @[t] + prize ELSE @[t] ] ]


\* ------------------------------------------------------------------------
\* streamlit_app: the race page
\* ------------------------------------------------------------------------

\* a page without the empty-roster check
RosterEmptyNever(df_c) == FALSE

\* df_c.empty
RosterEmpty(df_c) == Len(df_c) = 0

\* int(row["TEAM_ID"]) raises on a car that is assigned to no team, and
\* rows_sorted[0] raises on an empty list
BuildRaises(df_c) ==
    \/ Len(df_c) = 0
    \/ \E i \in 1..Len(df_c) : df_c[i].TEAM_ID = NULL

\* rows: one entry per roster car, in roster order, with its simulated time
Rows(df_c, t_factor, draws) ==
    [ i \in 1..Len(df_c) |->
        [ CAR_ID |-> df_c[i].CAR_ID, TEAM_ID |-> df_c[i].TEAM_ID,
          TIME_MIN |-> simulate_time_minutes(
                           df_c[i].SPEED, df_c[i].DURABILITY,
                           df_c[i].ACCELERATION, t_factor,
                           DefaultLo, DefaultHi, draws[i],
                           DefaultDistance) ] ]

\* a sort that puts the later of two equal times first
SortedIndexTiesReversed(rows, i) ==
    1 + Cardinality({ j \in 1..Len(rows) :
                        \/ rows[j].TIME_MIN < rows[i].TIME_MIN
                        \/ /\ rows[j].TIME_MIN = rows[i].TIME_MIN
                           /\ j > i })

\* index in sorted(rows, key=TIME_MIN) of rows[i]; sorted() is stable
SortedIndex(rows, i) ==
    1 + Cardinality({ j \in 1..Len(rows) :
                        \/ rows[j].TIME_MIN < rows[i].TIME_MIN
                        \/ /\ rows[j].TIME_MIN = rows[i].TIME_MIN
                           /\ j < i })

\* rows_sorted = sorted(rows, key=lambda r: r["TIME_MIN"])
Sorted(rows) ==
    [ p \in 1..Len(rows) |->
        rows[CHOOSE i \in 1..Len(rows) : SortedIndex(rows, i) = p] ]

\* enumerate(rows_sorted) left at its default start=0
ResultsPayloadFromZero(rows_sorted) ==
    [ p \in 1..Len(rows_sorted) |->
        << rows_sorted[p].CAR_ID, rows_sorted[p].TIME_MIN, p - 1 >> ]

\* results_payload: (car_id, time, pos) for pos, r in enumerate(.., start=1)
ResultsPayload(rows_sorted) ==
    [ p \in 1..Len(rows_sorted) |->
        << rows_sorted[p].CAR_ID, rows_sorted[p].TIME_MIN, p >> ]

\* the winner taken from the last entry of rows_sorted
WinnerTeamIdLast(rows_sorted) == rows_sorted[Len(rows_sorted)].TEAM_ID

\* winner_team_id = int(rows_sorted[0]["TEAM_ID"])
WinnerTeamId(rows_sorted) == rows_sorted[1].TEAM_ID

\* The script run ends (st.stop(), an uncaught exception, or its last line).
EndRun(how) ==
    /\ pc' = "idle"
    /\ outcome' = how

\* Lines 250-256: the page reads the roster, then the click is handled.
StartRace ==
    /\ pc = "idle"
    /\ attempts < MaxAttempts
    /\ \E track_name \in Tracks, fee \in Fees, prize \in Prizes :
          run' = [ NoRun EXCEPT !.df_c = get_all_cars(sess),
                                !.track_name = track_name,
                                !.fee = fee, !.prize = prize ]
    /\ before' = db
    /\ attempts' = attempts + 1
    /\ pc' = "clicked"
    /\ outcome' = "running"
    /\ UNCHANGED << db, sess, IN_TRANSACTION, prev, tcall,
                    callers, tx >>

\* Lines 257-259: st.warning("No cars available...") and st.stop().
StopNoCars ==
    /\ pc = "clicked"
    /\ RosterEmpty(run.df_c)
    /\ EndRun("no_cars")
    /\ UNCHANGED << db, sess, IN_TRANSACTION, prev, run, before, attempts,
                    tcall,
                    callers, tx >>

\* Line 267: create_race, outside the Transaction block.
CreateRace ==
    /\ pc = "clicked"
    /\ ~ RosterEmpty(run.df_c)
    /\ \/ /\ Execute(create_race_insert(sess, run.track_name))
          /\ run' = [ run EXCEPT !.race_id = max_race_id(sess') ]
          /\ pc' = "racing"
          /\ UNCHANGED outcome
       \/ \* the INSERT raises
          /\ run' = [ run EXCEPT !.raised = "create_race" ]
          /\ EndRun("error")
          /\ UNCHANGED << db, sess >>
    /\ UNCHANGED << IN_TRANSACTION, prev, before, attempts, tcall,
                    callers, tx >>

\* Lines 270-298: times, ranking, payload and winner.
BuildRows ==
    /\ pc = "racing"
    /\ IF BuildRaises(run.df_c)
       THEN /\ run' = [ run EXCEPT !.raised = "build_rows" ]
            /\ EndRun("error")
       ELSE /\ \E draws \in [ 1..Len(run.df_c) -> Draws ] :
                 LET rows == Rows(run.df_c, TrackFactor(run.track_name),
                                  draws)
                     rows_sorted == Sorted(rows)
                 IN  run' = [ run EXCEPT
                                !.results_payload =
                                    ResultsPayload(rows_sorted),
                                !.winner_team_id =
                                    WinnerTeamId(rows_sorted) ]
            /\ pc' = "enter"
            /\ UNCHANGED outcome
    /\ UNCHANGED << db, sess, IN_TRANSACTION, prev, before, attempts,
                    tcall,
                    callers, tx >>

\* Transaction.__enter__
TxEnter ==
    /\ pc = "enter"
    /\ prev' = IN_TRANSACTION
    /\ IN_TRANSACTION' = TRUE
    /\ pc' = "insert_race_results"
    /\ UNCHANGED << db, sess, run, before, outcome, attempts, tcall,
                    callers, tx >>

\* One write of the atomic group: it either runs through execute or
\* raises, which leaves the with-block (to Transaction.__exit__).
GroupWrite(at, newSess, next) ==
    /\ pc = at
    /\ \/ /\ Execute(newSess)
          /\ run' = [ run EXCEPT !.wrote = @ + 1 ]
          /\ pc' = next
       \/ /\ run' = [ run EXCEPT !.raised = at ]
          /\ pc' = "exit"
          /\ UNCHANGED << db, sess >>
    /\ UNCHANGED << IN_TRANSACTION, prev, before, outcome, attempts, tcall,
                    callers, tx >>

\* Line 302
InsertRaceResults ==
    GroupWrite("insert_race_results",
               insert_race_results(sess, run.race_id, run.results_payload),
               "set_race_winner")

\* Line 303
SetRaceWinner ==
    GroupWrite("set_race_winner",
               set_race_winner(sess, run.race_id, run.winner_team_id),
               "pay_participation_fee")

\* Line 304; "debited" records that the fee UPDATE of this race was applied
PayParticipationFee ==
    GroupWrite("pay_participation_fee",
               [ pay_participation_fee(sess, run.fee)
                   EXCEPT !.debited = @ \cup {run.race_id} ],
               "credit_winner_prize")

\* Line 305
CreditWinnerPrize ==
    GroupWrite("credit_winner_prize",
               credit_winner_prize(sess, run.winner_team_id, run.prize),
               "exit")

\* Transaction.__exit__: commit if the body did not raise, else rollback;
\* restore the flag; the exception, if any, ends the script run.
TxExit ==
    /\ pc = "exit"
    /\ IF run.raised = ""
       THEN /\ db' = Commit(db, sess)
            /\ sess' = sess
            /\ EndRun("settled")
       ELSE /\ sess' = Rollback(db, sess)
            /\ db' = db
            /\ EndRun("error")
    /\ IN_TRANSACTION' = prev
    /\ UNCHANGED << prev, run, before, attempts, tcall,
                    callers, tx >>

\* The cars page in another browser session (same cached connection, same
\* process): add_car for an existing team, at any moment.
AddCar ==
    /\ Len(sess.cars) < MaxCars
    /\ \E team_id \in TeamIds, stats \in CarStats :
          Execute(add_car(sess, team_id, stats))
    /\ UNCHANGED << IN_TRANSACTION, prev, pc, run, before, outcome,
                    attempts, tcall,
                    callers, tx >>

Next ==
    \/ StartRace
    \/ StopNoCars
    \/ CreateRace
    \/ BuildRows
    \/ TxEnter
    \/ InsertRaceResults
    \/ SetRaceWinner
    \/ PayParticipationFee
    \/ CreditWinnerPrize
    \/ TxExit
    \/ AddCar

Spec == Init /\ [][Next]_vars

TypeOK ==
    /\ IN_TRANSACTION \in BOOLEAN
    /\ pc \in { "idle", "clicked", "racing", "enter", "insert_race_results",
                "set_race_winner", "pay_participation_fee",
                "credit_winner_prize", "exit" }


\* ------------------------------------------------------------------------
\* One call of simulate_time_minutes on inputs drawn from bounded sets
\* ------------------------------------------------------------------------

SpeedInputs == {-5, 0, 40, 200, 220}

DurabilityInputs == {-1, 0, 1, 2, 3}

AccelerationInputs == {0, 1, 2}

TrackFactorInputs == {45, 50}

\* variability (lo, hi), in twentieths
VariabilityInputs == { <<19, 21>>, <<20, 20>>, <<0, 21>>, <<-1, 10>>,
                       <<21, 19>> }

DrawInputs == {0, 1, 2}

\* distance_km, in metres
DistanceInputs == {-1000, 0, 1, 100000}

CallInputs ==
    [ state : {"ready"}, speed : SpeedInputs, dur : DurabilityInputs,
      acc : AccelerationInputs, tf : TrackFactorInputs,
      var : VariabilityInputs, u2 : DrawInputs, dist : DistanceInputs ]

TimeOf(c) ==
    simulate_time_minutes(c.speed, c.dur, c.acc, c.tf, c.var[1], c.var[2],
                          c.u2, c.dist)

InitTime ==
    /\ db = InitTables(<< >>)
    /\ sess = InitTables(<< >>)
    /\ IN_TRANSACTION = FALSE
    /\ prev = FALSE
    /\ pc = "idle"
    /\ run = NoRun
    /\ before = db
    /\ outcome = "none"
    /\ attempts = 0
    /\ tcall \in CallInputs
    /\ callers = NoCallers
    /\ tx = NoTx

\* The call runs to its return statement (the function has no raise).
Simulate ==
    /\ tcall.state = "ready"
    /\ tcall' = [ state |-> "returned", speed |-> tcall.speed,
                  dur |-> tcall.dur, acc |-> tcall.acc, tf |-> tcall.tf,
                  var |-> tcall.var, u2 |-> tcall.u2, dist |-> tcall.dist,
                  result |-> TimeOf(tcall) ]
    /\ UNCHANGED << sysvars, callers, tx >>

NextTime == Simulate

SpecTime == InitTime /\ [][NextTime]_vars


\* ------------------------------------------------------------------------
\* Properties of the settlement (Spec)
\* ------------------------------------------------------------------------

GroupWrites == { "insert_race_results", "set_race_winner",
                 "pay_participation_fee", "credit_winner_prize" }

RECURSIVE SumOver(_, _)
SumOver(S, f) ==
    IF S = {} THEN 0
    ELSE LET x == CHOOSE y \in S : TRUE
         IN  f[x] + SumOver(S \ {x}, f)

\* RACE_RESULTS rows of a race
ResultsOf(tables, race_id) ==
    SelectSeq(tables.results, LAMBDA row : row.RACE_ID = race_id)

\* the teams that own a car of a roster
RosterTeams(df_c) == { df_c[i].TEAM_ID : i \in 1..Len(df_c) } \ {NULL}

BudgetDelta == [ t \in TeamIds |-> db.teams[t] - before.teams[t] ]

\* C1: when a write of the atomic group has raised (after zero to three of
\* the four writes were executed), the committed budget of every team and
\* the committed RACE_RESULTS rows are those of before the settlement.
C1_FailedGroupLeavesBudgetsAndResults ==
    run.raised \in GroupWrites =>
        /\ db.teams = before.teams
        /\ db.results = before.results

\* credit_winner_prize raised after results, winner and debits were
\* executed, and the run has ended
C1_Witness ==
    /\ pc = "idle"
    /\ outcome = "error"
    /\ run.raised = "credit_winner_prize"
    /\ run.wrote = 3
    /\ run.fee > 0

\* C2 (as claimed): a settlement attempt that failed after create_race
\* leaves the committed RACES table as it was before the attempt.
C2_FailedAttemptLeavesNoRace ==
    (pc = "idle" /\ outcome = "error") => db.races = before.races

\* C3: a run whose roster is empty writes nothing (no race, no result, no
\* budget change), obtains no race identifier, and ends in the "no cars"
\* outcome, never in a settled race.
C3_EmptyRosterAbortsBeforeAnyWrite ==
    (outcome # "none" /\ Len(run.df_c) = 0) =>
        /\ db.races = before.races
        /\ db.results = before.results
        /\ db.teams = before.teams
        /\ run.race_id = 0
        /\ pc \in {"clicked", "idle"}
        /\ pc = "idle" => outcome = "no_cars"

C3_Witness ==
    /\ pc = "idle"
    /\ outcome = "no_cars"
    /\ Len(run.df_c) = 0
    /\ attempts > 0

\* C4: after a successful settlement of a roster of N cars the new race has
\* exactly N committed result rows, exactly one per roster car, and their
\* positions are exactly 1..N.
C4_OneResultPerCarPositionsOneToN ==
    outcome = "settled" =>
        LET rs == ResultsOf(db, run.race_id)
            N  == Len(run.df_c)
        IN  /\ N >= 1
            /\ run.race_id \notin 1..Len(before.races)
            /\ Len(rs) = N
            /\ \A i \in 1..N :
                 Cardinality({ k \in 1..Len(rs) :
                                 rs[k].CAR_ID = run.df_c[i].CAR_ID }) = 1
            /\ { rs[k].POSITION : k \in 1..Len(rs) } = 1..N

C4_Witness ==
    /\ outcome = "settled"
    /\ Len(run.df_c) = 2
    /\ Len(ResultsOf(db, run.race_id)) = 2

\* C5: in every committed state, the winner of every race whose winner is
\* set is the owning team of the car at position 1 of that race's results.
C5_WinnerOwnsPositionOneCar ==
    \A r \in 1..Len(db.races) :
        db.races[r].WINNER_TEAM_ID # NULL =>
            LET first == SelectSeq(ResultsOf(db, r),
                                   LAMBDA row : row.POSITION = 1)
            IN  /\ Len(first) = 1
                /\ first[1].CAR_ID \in 1..Len(db.cars)
                /\ db.cars[first[1].CAR_ID].TEAM_ID
                       = db.races[r].WINNER_TEAM_ID

\* a committed race of two cars of different teams, won by the car that
\* comes second in the roster
C5_Witness ==
    \E r \in 1..Len(db.races) :
        /\ db.races[r].WINNER_TEAM_ID # NULL
        /\ Len(ResultsOf(db, r)) = 2
        /\ \E k \in 1..2 :
              /\ ResultsOf(db, r)[k].POSITION = 1
              /\ ResultsOf(db, r)[k].CAR_ID = 2
        /\ db.cars[1].TEAM_ID # db.cars[2].TEAM_ID

\* C6 (as claimed): after a successful settlement the budget deltas sum to
\* prize - fee * K, K the number of distinct teams owning a roster car, and
\* the winner's own delta is prize - fee.
C6_BudgetDeltasSumToPrizeMinusFees ==
    outcome = "settled" =>
        /\ SumOver(TeamIds, BudgetDelta)
             = run.prize - run.fee * Cardinality(RosterTeams(run.df_c))
        /\ BudgetDelta[run.winner_team_id] = run.prize - run.fee

\* C7 (as claimed): a settlement leaves unchanged the budget of every team
\* that owns no car of the roster snapshot.
C7_TeamsOutsideRosterKeepBudget ==
    outcome = "settled" =>
        \A t \in TeamIds \ RosterTeams(run.df_c) : BudgetDelta[t] = 0

\* C8: in every committed state a race has result rows exactly if its
\* winner is set, and its fee debit is committed exactly if its results are.
C8_GroupCommitsAsOne ==
    \A r \in 1..Len(db.races) :
        /\ (Len(ResultsOf(db, r)) > 0) <=> (db.races[r].WINNER_TEAM_ID # NULL)
        /\ (r \in db.debited) <=> (Len(ResultsOf(db, r)) > 0)

\* a failed attempt (its race has neither results nor winner nor debit)
\* followed by a settled one, both committed
C8_Witness ==
    /\ pc = "idle"
    /\ outcome = "settled"
    /\ Len(db.races) = 2
    /\ Len(ResultsOf(db, 1)) = 0
    /\ 1 \notin db.debited
    /\ Len(ResultsOf(db, 2)) > 0
    /\ 2 \in db.debited

\* C11: the committed results of a settled race are ranked by ascending
\* time (a lower position never has a greater time), and of two cars with
\* equal times the one that comes first in the roster, which is ordered by
\* car identifier, has the lower position.
C11_RankedByTimeTiesByRosterOrder ==
    outcome = "settled" =>
        LET rs == ResultsOf(db, run.race_id)
        IN  /\ \A i \in 1..Len(run.df_c) - 1 :
                 run.df_c[i].CAR_ID < run.df_c[i + 1].CAR_ID
            /\ \A a, b \in 1..Len(rs) :
                 /\ rs[a].POSITION < rs[b].POSITION
                      => rs[a].TIME_TAKEN <= rs[b].TIME_TAKEN
                 /\ ( /\ rs[a].TIME_TAKEN = rs[b].TIME_TAKEN
                      /\ rs[a].CAR_ID < rs[b].CAR_ID )
                      => rs[a].POSITION < rs[b].POSITION

\* a settled race of two cars with equal times
C11_Witness ==
    /\ outcome = "settled"
    /\ LET rs == ResultsOf(db, run.race_id)
       IN  /\ Len(rs) = 2
           /\ rs[1].TIME_TAKEN = rs[2].TIME_TAKEN
           /\ rs[1].CAR_ID # rs[2].CAR_ID

\* C13: the winner of a race is NULL when the race row is created and stays
\* NULL until the commit of the settlement that created it; once set it
\* never changes, whatever later settlements do.
C13_WinnerSetOnceByOwnSettlement ==
    [][ /\ Len(db'.races) >= Len(db.races)
        /\ \A r \in 1..Len(db'.races) :
             IF r > Len(db.races)
             THEN db'.races[r].WINNER_TEAM_ID = NULL
             ELSE /\ db.races[r].WINNER_TEAM_ID # NULL
                     => db'.races[r].WINNER_TEAM_ID
                            = db.races[r].WINNER_TEAM_ID
                  /\ ( /\ db.races[r].WINNER_TEAM_ID = NULL
                       /\ db'.races[r].WINNER_TEAM_ID # NULL )
                     => /\ r = run.race_id
                        /\ pc = "exit"
                        /\ run.raised = ""
                        /\ outcome' = "settled" ]_vars

\* two settled races won by different teams
C13_Witness ==
    /\ Len(db.races) = 2
    /\ db.races[1].WINNER_TEAM_ID # NULL
    /\ db.races[2].WINNER_TEAM_ID # NULL
    /\ db.races[1].WINNER_TEAM_ID # db.races[2].WINNER_TEAM_ID

\* ------------------------------------------------------------------------
\* The settlement over a CARS table that holds a car whose TEAM_ID matches
\* no TEAMS row (add_car takes any team_id and the tables declare no
\* enforced reference; get_all_cars LEFT JOINs the teams for that reason)
\* ------------------------------------------------------------------------

\* a TEAM_ID that is no TEAMS row
OrphanTeamId == 3

InitOrphan ==
    /\ \E cars \in { << >>, << CarRow(OrphanTeamId, <<220, 2, 2>>) >> } :
          /\ db = InitTables(cars)
          /\ sess = InitTables(cars)
    /\ IN_TRANSACTION = FALSE
    /\ prev = FALSE
    /\ pc = "idle"
    /\ run = NoRun
    /\ before = db
    /\ outcome = "none"
    /\ attempts = 0
    /\ tcall = NoCall
    /\ callers = NoCallers
    /\ tx = NoTx

SpecOrphan == InitOrphan /\ [][Next]_vars

\* C12 (as claimed): when the four writes ran and the winning team is no
\* TEAMS row (credit_winner_prize updated zero rows), the run ends in an
\* error and no result, winner or fee debit of its race is committed.
C12_MissingWinnerFailsSettlement ==
    ( /\ pc = "idle"
      /\ run.wrote = 4
      /\ run.winner_team_id \notin DOMAIN db.teams )
    => /\ outcome = "error"
       /\ Len(ResultsOf(db, run.race_id)) = 0
       /\ db.races[run.race_id].WINNER_TEAM_ID = NULL
       /\ run.race_id \notin db.debited

\* ------------------------------------------------------------------------
\* Properties of simulate_time_minutes (SpecTime)
\* ------------------------------------------------------------------------

\* speed <= 0, distance_km <= 0, or variability with lo <= 0 or lo > hi
InvalidCall(c) ==
    \/ c.speed <= 0
    \/ c.dist <= 0
    \/ c.var[1] <= 0
    \/ c.var[1] > c.var[2]

\* the contract of section 4.1
ValidCall(c) ==
    /\ ~ InvalidCall(c)
    /\ c.dur \in 0..2
    /\ c.acc \in 0..2
    /\ c.tf > 0

\* C9 (as claimed): a call with speed <= 0, distance <= 0 or invalid
\* variability bounds does not return a time.
C9_InvalidInputsReturnNoTime ==
    tcall.state = "returned" => ~ InvalidCall(tcall)

\* the result does not increase when one of speed, durability,
\* acceleration, track_factor is raised within the valid inputs
MonotoneAt(c) ==
    /\ \A v \in SpeedInputs :
         v >= c.speed => TimeOf([c EXCEPT !.speed = v]) <= c.result
    /\ \A v \in DurabilityInputs \cap 0..2 :
         v >= c.dur => TimeOf([c EXCEPT !.dur = v]) <= c.result
    /\ \A v \in AccelerationInputs \cap 0..2 :
         v >= c.acc => TimeOf([c EXCEPT !.acc = v]) <= c.result
    /\ \A v \in TrackFactorInputs :
         v >= c.tf => TimeOf([c EXCEPT !.tf = v]) <= c.result

\* the unrounded time, <<floor, remainder>> in thousandths of a minute
ExactTimeOf(c) ==
    ExactTime(c.speed, c.dur, c.acc, c.tf,
              Uniform(c.var[1], c.var[2], c.u2), c.dist)

\* C10 (as claimed): for valid inputs and a fixed draw the result is
\* strictly positive and non-increasing in speed, durability, acceleration
\* and track_factor.
C10_PositiveAndMonotone ==
    (tcall.state = "returned" /\ ValidCall(tcall)) =>
        /\ tcall.result > 0
        /\ MonotoneAt(tcall)

\* C10 (amended): for valid inputs and a fixed draw the result is not
\* negative, is strictly positive whenever the unrounded time is at least
\* 0.001 minutes, and is non-increasing in speed, durability, acceleration
\* and track_factor.
C10_NonNegativeAndMonotone ==
    (tcall.state = "returned" /\ ValidCall(tcall)) =>
        /\ tcall.result >= 0
        /\ ExactTimeOf(tcall)[1] >= 1 => tcall.result > 0
        /\ MonotoneAt(tcall)

\* a valid call whose time strictly drops when the speed is raised
C10_Witness ==
    /\ tcall.state = "returned"
    /\ ValidCall(tcall)
    /\ tcall.speed = 200
    /\ tcall.result > 0
    /\ TimeOf([tcall EXCEPT !.speed = 220]) < tcall.result


\* ------------------------------------------------------------------------
\* Two callers of create_race on the one cached connection (SpecCreate)
\* ------------------------------------------------------------------------

\* the browser sessions that start a race
Callers == {1, 2}

\* most create_race calls of one caller
MaxCalls == 2

\* a caller: where it is in create_race, the identifier of the row its
\* INSERT made (RACE_ID counts the rows), and the value create_race returned
IdleCaller ==
    [ at |-> "idle", inserted |-> 0, race_id |-> 0, calls |-> 0 ]

InitCreate ==
    /\ db = InitTables(<< >>)
    /\ sess = InitTables(<< >>)
    /\ IN_TRANSACTION = FALSE
    /\ prev = FALSE
    /\ pc = "idle"
    /\ run = NoRun
    /\ before = db
    /\ outcome = "none"
    /\ attempts = 0
    /\ tcall = NoCall
    /\ callers = [ c \in Callers |-> IdleCaller ]
    /\ tx = NoTx

\* create_race, lines 127-132: execute(INSERT INTO RACES)
CreateRaceInsert(c) ==
    /\ callers[c].at = "idle"
    /\ callers[c].calls < MaxCalls
    /\ \E track_name \in CallerTracks :
          Execute(create_race_insert(sess, track_name))
    /\ callers' = [ callers EXCEPT ![c] =
                      [ @ EXCEPT !.at = "inserted",
                                 !.inserted = Len(sess'.races),
                                 !.race_id = 0 ] ]
    /\ UNCHANGED << IN_TRANSACTION, pagevars, tcall, tx >>

\* create_race, lines 134-138: SELECT MAX(RACE_ID), then return
CreateRaceSelect(c) ==
    /\ callers[c].at = "inserted"
    /\ callers' = [ callers EXCEPT ![c] =
                      [ @ EXCEPT !.at = "idle",
                                 !.race_id = max_race_id(sess),
                                 !.calls = @ + 1 ] ]
    /\ UNCHANGED << db, sess, IN_TRANSACTION, pagevars, tcall, tx >>

NextCreate ==
    \E c \in Callers :
        \/ CreateRaceInsert(c)
        \/ CreateRaceSelect(c)

SpecCreate == InitCreate /\ [][NextCreate]_vars

\* C15 (as claimed): in every interleaving of two callers, create_race
\* returns the identifier of the row that this call inserted.
C15_CreateRaceReturnsOwnRow ==
    \A c \in Callers :
        (callers[c].at = "idle" /\ callers[c].calls > 0)
            => callers[c].race_id = callers[c].inserted


\* ------------------------------------------------------------------------
\* Transaction blocks, nested and across threads (SpecTx, SpecThreads)
\* ------------------------------------------------------------------------

\* the threads of the process; all use the one cached connection
Threads == {1, 2}

\* deepest nesting of with transaction(conn) blocks in one thread
MaxDepth == 2

\* most rows the writes of these threads put into CARS
MaxWrites == 2

\* most blocks the single thread of SpecTx opens
MaxBlocks == 3

\* blocks each of the two threads of SpecThreads opens
BlocksPerThread == 1

NoExit == [ depth |-> 0 ]

\* a thread: whether it runs at all, its open blocks (innermost last), what
\* its last __exit__ did, and how many blocks it may still open
Thread(live, blocks) ==
    [ live |-> live, stack |-> << >>, last |-> NoExit,
      blocks_left |-> blocks ]

InitBlocks(live, blocks) ==
    /\ db = InitTables(<< >>)
    /\ sess = InitTables(<< >>)
    /\ IN_TRANSACTION = FALSE
    /\ prev = FALSE
    /\ pc = "idle"
    /\ run = NoRun
    /\ before = db
    /\ outcome = "none"
    /\ attempts = 0
    /\ tcall = NoCall
    /\ callers = NoCallers
    /\ tx = [ t \in Threads |-> Thread(t \in live, blocks) ]

\* one thread
InitTx == InitBlocks({1}, MaxBlocks)

\* two threads
InitThreads == InitBlocks({1, 2}, BlocksPerThread)

\* the body of the innermost open block of t is still running (or t is
\* outside every block)
Running(t) ==
    IF tx[t].stack = << >> THEN TRUE
    ELSE tx[t].stack[Len(tx[t].stack)].exc = ""

\* Transaction.__init__ and __enter__: _prev = IN_TRANSACTION, flag to True.
\* entered_with and sess_len record the flag and the number of CARS rows the
\* connection saw on entry; nested records that a block was opened inside;
\* wrote holds the CARS rows written directly in the block's body.
TxBlockEnter(t) ==
    /\ tx[t].live
    /\ Running(t)
    /\ Len(tx[t].stack) < MaxDepth
    /\ tx[t].blocks_left > 0
    /\ LET outer == [ k \in 1..Len(tx[t].stack) |->
                        IF k = Len(tx[t].stack)
                        THEN [ tx[t].stack[k] EXCEPT !.nested = TRUE ]
                        ELSE tx[t].stack[k] ]
           block == [ prev |-> IN_TRANSACTION, exc |-> "",
                      entered_with |-> IN_TRANSACTION,
                      sess_len |-> Len(sess.cars), nested |-> FALSE,
                      wrote |-> {} ]
       IN  tx' = [ tx EXCEPT ![t].stack = Append(outer, block),
                             ![t].blocks_left = @ - 1 ]
    /\ IN_TRANSACTION' = TRUE
    /\ UNCHANGED << db, sess, pagevars, tcall, callers >>

\* a write through execute, inside or outside a block
TxWrite(t) ==
    /\ tx[t].live
    /\ Running(t)
    /\ Len(sess.cars) < MaxWrites
    /\ Execute(add_car(sess, 1, <<220, 2, 2>>))
    /\ tx' = IF tx[t].stack = << >> THEN tx
             ELSE [ tx EXCEPT ![t].stack[Len(tx[t].stack)].wrote =
                                  @ \cup { Len(sess'.cars) } ]
    /\ UNCHANGED << IN_TRANSACTION, pagevars, tcall, callers >>

\* the body of the innermost open block raises
TxRaise(t) ==
    /\ tx[t].live
    /\ tx[t].stack # << >>
    /\ Running(t)
    /\ tx' = [ tx EXCEPT ![t].stack[Len(tx[t].stack)].exc = "body" ]
    /\ UNCHANGED << db, sess, IN_TRANSACTION, pagevars, tcall, callers >>

\* a block that always commits
ExitCallsCommitAlways(body_raised) == << "commit" >>

\* __exit__: "if exc_type is None: commit() else: rollback()"
ExitCalls(body_raised) ==
    IF body_raised THEN << "rollback" >> ELSE << "commit" >>

\* a block that clears the flag on exit
ExitFlagCleared(block) == FALSE

\* __exit__: "finally: IN_TRANSACTION = self._prev"
ExitFlag(block) == block.prev

\* the exception that leaves __exit__ (which returns False): the body's
\* own, unless commit() or rollback() raised in its place
Propagated(body_raised, call, call_raised) ==
    IF call_raised THEN call
    ELSE IF body_raised THEN "body" ELSE "none"

\* Transaction.__exit__ of the innermost open block of t.  commit() or
\* rollback() may itself raise, having taken effect (landed) or not.
TxBlockExit(t) ==
    /\ tx[t].live
    /\ tx[t].stack # << >>
    /\ LET depth == Len(tx[t].stack)
           block == tx[t].stack[depth]
           body_raised == block.exc # ""
           calls == ExitCalls(body_raised)
       IN  \E call_raised \in BOOLEAN, landed \in BOOLEAN :
             /\ ~ call_raised => landed
             /\ IF calls[1] = "commit"
                THEN /\ db' = IF landed THEN Commit(db, sess) ELSE db
                     /\ sess' = sess
                ELSE /\ sess' = IF landed THEN Rollback(db, sess) ELSE sess
                     /\ db' = db
             /\ IN_TRANSACTION' = ExitFlag(block)
             /\ LET out == Propagated(body_raised, calls[1], call_raised)
                    rest == SubSeq(tx[t].stack, 1, depth - 1)
                    \* rows that a rollback discarded are no writes any more
                    kept(w) == w \cap 1..Len(sess'.cars)
                    \* the exception arrives in the body of the enclosing
                    \* block
                    rest2 == [ k \in 1..(depth - 1) |->
                                 [ rest[k] EXCEPT
                                     !.wrote = kept(@),
                                     !.exc = IF k = depth - 1 /\ out # "none"
                                             THEN "body" ELSE @ ] ]
                IN  tx' = [ tx EXCEPT
                              ![t].stack = rest2,
                              ![t].last =
                                  [ depth |-> depth,
                                    body_raised |-> body_raised,
                                    calls |-> calls,
                                    propagated |-> out,
                                    call_raised |-> call_raised,
                                    entered_with |-> block.entered_with,
                                    flag_after |-> IN_TRANSACTION',
                                    sess_len |-> block.sess_len,
                                    nested |-> block.nested,
                                    wrote |-> kept(block.wrote) ] ]
    /\ UNCHANGED << pagevars, tcall, callers >>

NextTx ==
    \E t \in Threads :
        \/ TxBlockEnter(t)
        \/ TxWrite(t)
        \/ TxRaise(t)
        \/ TxBlockExit(t)

SpecTx == InitTx /\ [][NextTx]_vars

SpecThreads == InitThreads /\ [][NextTx]_vars


\* ------------------------------------------------------------------------
\* Properties of the Transaction blocks
\* ------------------------------------------------------------------------

\* some thread has a block open
SomeBlockOpen == \E t \in Threads : tx[t].stack # << >>

\* C14 (as claimed): a block whose body completed calls commit once and
\* never rollback; a block whose body raised calls rollback, never commit,
\* and the body's exception leaves the block unchanged.
C14_CommitElseRollbackAndSameException ==
    LET l == tx[1].last
    IN  l.depth > 0 =>
          IF l.body_raised
          THEN /\ l.calls = << "rollback" >>
               /\ l.propagated = "body"
          ELSE l.calls = << "commit" >>

\* C14 (amended): a block whose body completed calls commit once and never
\* rollback; a block whose body raised calls rollback once, never commit,
\* and an exception always leaves the block: the body's own when rollback
\* returns, the one rollback raised when rollback itself raises.
C14_CommitElseRollbackNeverSwallowed ==
    LET l == tx[1].last
    IN  l.depth > 0 =>
          IF l.body_raised
          THEN /\ l.calls = << "rollback" >>
               /\ l.propagated # "none"
               /\ l.propagated = IF l.call_raised THEN "rollback" ELSE "body"
          ELSE /\ l.calls = << "commit" >>
               /\ l.propagated = IF l.call_raised THEN "commit" ELSE "none"

\* a block whose body raised: rolled back, the body's exception out
C14_Witness ==
    /\ tx[1].last.depth = 1
    /\ tx[1].last.body_raised
    /\ tx[1].last.calls = << "rollback" >>
    /\ tx[1].last.propagated = "body"
    /\ tx[1].last.sess_len = 0
    /\ sess.cars = << >>
    /\ tx[1].blocks_left = MaxBlocks - 1

\* C16: a write through execute is committed when the call returns exactly
\* if IN_TRANSACTION is False, which in one thread is exactly if no block is
\* open; and while one block (with no block inside it) is open, no write
\* issued inside it is committed.
C16_AutoCommitOnlyOutsideBlocks ==
    /\ [] ( \A t \in Threads :
              ( /\ Len(tx[t].stack) = 1
                /\ ~ tx[t].stack[1].nested )
              => Len(db.cars) <= tx[t].stack[1].sess_len )
    /\ [][ Len(sess'.cars) = Len(sess.cars) + 1 =>
             /\ (db'.cars = sess'.cars) <=> ~ IN_TRANSACTION
             /\ (db'.cars = sess'.cars) <=> ~ SomeBlockOpen ]_vars

\* one open block holding an uncommitted write, after a write outside any
\* block was committed
C16_Witness ==
    /\ Len(tx[1].stack) = 1
    /\ ~ tx[1].stack[1].nested
    /\ tx[1].stack[1].sess_len = 1
    /\ Len(db.cars) = 1
    /\ Len(sess.cars) = 2

\* C17: in one thread, IN_TRANSACTION is True exactly while a block is
\* open (so it is False after the outermost exit), and every __exit__
\* leaves the flag at the value it had when its block was entered, also
\* when the body raised or commit/rollback raised.
C17_FlagFollowsNesting ==
    /\ IN_TRANSACTION <=> (tx[1].stack # << >>)
    /\ tx[1].last.depth > 0 =>
          tx[1].last.flag_after = tx[1].last.entered_with

\* an inner block has exited with commit or rollback raising and the outer
\* block is still open
C17_Witness ==
    /\ tx[1].last.depth = 2
    /\ tx[1].last.call_raised
    /\ Len(tx[1].stack) = 1
    /\ IN_TRANSACTION

\* C18 (as claimed): no write issued directly in an outermost block is
\* committed while that block is open, and when its body raised (and
\* rollback returned) none of its writes is committed after its exit.
C18_OuterWritesHeldUntilOuterExit ==
    /\ tx[1].stack # << >> =>
          \A i \in tx[1].stack[1].wrote : i > Len(db.cars)
    /\ ( /\ tx[1].last.depth = 1
         /\ tx[1].last.body_raised
         /\ ~ tx[1].last.call_raised )
       => tx[1].last.wrote = {}

\* C19 (as claimed): with two threads, IN_TRANSACTION is True while either
\* thread's block is open and False once both have exited.
C19_FlagTrueExactlyWhileABlockIsOpen ==
    IN_TRANSACTION <=> SomeBlockOpen

====
